---- MODULE Spec2Model ----
(***************************************************************************)
(* Model of the Odoo MCP gateway (odoo_mcp_server.py): the write-policy    *)
(* guard, the lazily created shared client, the field safety filter, the   *)
(* tool and resource operations and the shaping of their results.          *)
(*                                                                         *)
(* A request is one tool or resource invocation by a caller.  The          *)
(* framework first resolves the request's dependency, get_shared_client    *)
(* (Depends(get_shared_client) in every signature), and then runs the      *)
(* function body with the client it obtained.  The remote store is an      *)
(* external collaborator: it is modelled by a schema, the set of existing  *)
(* record ids and an id counter, and every remote call may fault.          *)
(*                                                                         *)
(* Python values are encoded as follows: None is the record None, an       *)
(* optional argument that is given is [some |-> v]; a dict is a function   *)
(* on its keys; a list is a sequence; the text produced by json.dumps is   *)
(* represented by the structure it serialises.  An f-string is the         *)
(* sequence of its pieces.                                                 *)
(***************************************************************************)
EXTENDS Integers, Sequences, FiniteSets, TLC

VARIABLES
    READONLY_MODE,  \* the Write-Policy Flag, read once at start
    _client,        \* the module-level shared client: None or [handle |-> n]
    connects,       \* number of clients OdooJsonRpcClient.connect has built
    schema,         \* remote: the entity's field descriptors, in dict order
    existing,       \* remote: ids of the records that exist
    nextId,         \* remote: the id the next created record gets
    pc,             \* per caller: position of its current request
    op,             \* per caller: the operation the request names
    cl,             \* per caller: the client its dependency resolved to
    did,            \* per caller: TRUE iff this request's dependency connected
    res,            \* per caller: the finished request's observable result
    prevSafe        \* the field list the previous get_safe_fields call returned

vars == <<READONLY_MODE, _client, connects, schema, existing, nextId,
          pc, op, cl, did, res, prevSafe>>

(***************************************************************************)
(* Bounds                                                                  *)
(***************************************************************************)
MaxId == 2

Callers == {"c1", "c2"}

(***************************************************************************)
(* Python values                                                           *)
(***************************************************************************)
None == [none |-> TRUE]

Some(v) == [some |-> v]

\* truthiness of an optional list argument: None and [] are both falsy
Truthy(x) == x # None /\ Len(x.some) > 0

\* truthiness of an optional string argument: None and "" are both falsy
TruthyStr(x) == x # None /\ x.some # ""

\* `x or []`
OrEmpty(x) == IF Truthy(x) THEN x.some ELSE <<>>

\* dict.get(key), None when the key is absent
Get(d, key) == IF key \in DOMAIN d THEN d[key] ELSE "None"

Range(s) == {s[i] : i \in DOMAIN s}

(***************************************************************************)
(* Configuration and module constants                                      *)
(***************************************************************************)
ODOO_URL == "http://localhost:8019"

\* variant: a method set that leaves copy out
WRITE_METHODS_NoCopy == {"create", "write", "unlink"}

WRITE_METHODS == {"create", "write", "unlink", "copy"}

\* variant: a type set that leaves html out
DANGEROUS_FIELD_TYPES_NoHtml == {"binary", "image"}

DANGEROUS_FIELD_TYPES == {"binary", "image", "html"}

DEFAULT_FIELD_ATTRIBUTES ==
    <<"type", "string", "help", "required", "readonly", "store",
      "selection", "comodel_name", "inverse_name", "domain">>

\* variant: a guard that lets unlink through
check_readonly_mode_NoUnlink(operation) ==
    READONLY_MODE /\ operation \in {"create", "write", "copy"}

\* check_readonly_mode(operation): TRUE iff it raises ToolError
check_readonly_mode(operation) ==
    READONLY_MODE /\ operation \in WRITE_METHODS

\* f"{ODOO_URL}/odoo/{model}/{record_id}"
build_record_url(model, record_id) ==
    <<ODOO_URL, "/odoo/", model, "/", record_id>>

(***************************************************************************)
(* The remote store                                                        *)
(***************************************************************************)
Field(n, t) == [name |-> n, info |-> [type |-> t, string |-> n]]

\* a descriptor that carries no type attribute
Untyped(n) == [name |-> n, info |-> [string |-> n]]

Schemas ==
    { <<Field("id", "integer"), Field("name", "char"), Field("data", "binary")>>,
      <<Field("id", "integer"), Field("_url", "char"), Field("body", "html")>>,
      <<Field("data", "binary"), Field("body", "html")>>,
      <<Untyped("name"), Field("image", "image")>> }

CoreSchemas ==
    { <<Field("id", "integer"), Field("name", "char"), Field("data", "binary")>> }

Declared == {schema[i].name : i \in DOMAIN schema}

Restrict(f, keys) == [k \in (DOMAIN f) \cap keys |-> f[k]]

\* model.fields_get(allfields=..., attributes=...) on the remote entity
RemoteFieldsGet(allfields, attributes) ==
    LET keep == SelectSeq(schema, LAMBDA d:
                    allfields = None \/ d.name \in Range(allfields.some))
    IN  [i \in DOMAIN keep |->
            [name |-> keep[i].name,
             info |-> IF attributes = None THEN keep[i].info
                      ELSE Restrict(keep[i].info, Range(attributes.some))]]

RemoteRecord(id, names) ==
    [f \in names |-> IF f = "id" THEN id ELSE <<"val", f, id>>]

\* the field names a read answers with: the requested ones (and id), or all
\* of them when no field is named
AnswerNames(fields) ==
    IF ~Truthy(fields) THEN Declared
    ELSE Range(fields.some) \cup ({"id"} \cap Declared)

\* model.read(ids[, fields]): existing ids only, in the order asked
RemoteRead(ids, fields) ==
    LET found == SelectSeq(ids, LAMBDA i: i \in existing)
    IN  [k \in DOMAIN found |-> RemoteRecord(found[k], AnswerNames(fields))]

\* the remote rejects a read of a field the entity does not declare
FieldsKnown(fields) == fields = None \/ Range(fields.some) \subseteq Declared

RECURSIVE Ascending(_)
Ascending(S) ==
    IF S = {} THEN <<>>
    ELSE LET m == CHOOSE x \in S : \A y \in S : x <= y
         IN  <<m>> \o Ascending(S \ {m})

Reverse(s) == [i \in DOMAIN s |-> s[Len(s) + 1 - i]]

\* a domain is a sequence of leaf triples on id; [] matches everything
Matching(domain) ==
    {i \in existing : \A k \in DOMAIN domain : i = domain[k][3]}

Slice(s, limit, offset) ==
    SubSeq(s, offset + 1, IF offset + limit < Len(s) THEN offset + limit ELSE Len(s))

\* model.search_read(domain, limit=, offset=[, fields=][, order=])
RemoteSearchRead(domain, fields, limit, offset, order) ==
    LET asc   == Ascending(Matching(domain))
        inord == IF order = Some("id desc") THEN Reverse(asc) ELSE asc
        page  == Slice(inord, limit, offset)
    IN  [k \in DOMAIN page |-> RemoteRecord(page[k], AnswerNames(fields))]

\* model.search_count(domain)
RemoteSearchCount(domain) == Cardinality(Matching(domain))

(***************************************************************************)
(* OdooJsonRpcClient: the calls it sends to the remote model proxy         *)
(***************************************************************************)
Call(method, model, params) == [method |-> method, model |-> model, params |-> params]

client_search_count(model, domain) ==
    Call("search_count", model, [domain |-> domain])

\* read(): `if fields:` passes the list, otherwise reads without one
client_read(model, ids, fields) ==
    Call("read", model,
         [ids |-> ids, fields |-> IF Truthy(fields) THEN fields ELSE None])

\* search_read(): limit and offset always, fields and order only when truthy
client_search_read(model, domain, fields, limit, offset, order) ==
    Call("search_read", model,
         [domain |-> domain,
          limit  |-> limit,
          offset |-> offset,
          fields |-> IF Truthy(fields) THEN fields ELSE None,
          order  |-> IF TruthyStr(order) THEN order ELSE None])

client_create(model, values) == Call("create", model, [values |-> values])

client_write(model, ids, values) == Call("write", model, [ids |-> ids, values |-> values])

client_unlink(model, ids) == Call("unlink", model, [ids |-> ids])

\* execute(): getattr(model_proxy, method)(*args, **kwargs)
client_execute(model, method, args, kwargs) ==
    Call(method, model, [args |-> args, kwargs |-> kwargs])

\* fields_get(): allfields and attributes only when truthy
client_fields_get(model, allfields, attributes) ==
    Call("fields_get", model,
         [allfields  |-> IF Truthy(allfields) THEN allfields ELSE None,
          attributes |-> IF Truthy(attributes) THEN attributes ELSE None])

(***************************************************************************)
(* Field safety filter                                                     *)
(***************************************************************************)
RECURSIVE SafeNames(_, _)
SafeNames(fields_data, dangerous) ==
    IF fields_data = <<>> THEN <<>>
    ELSE LET d == Head(fields_data)
         IN  (IF Get(d.info, "type") \notin dangerous THEN <<d.name>> ELSE <<>>)
             \o SafeNames(Tail(fields_data), dangerous)

\* get_safe_fields(client, model): the names whose type is not dangerous
get_safe_fields(model) ==
    SafeNames(RemoteFieldsGet(None, Some(<<"type">>)), DANGEROUS_FIELD_TYPES)

\* the fields_get call get_safe_fields sends
SafeFieldsCall(model) == client_fields_get(model, None, Some(<<"type">>))

(***************************************************************************)
(* Result shaping                                                          *)
(***************************************************************************)
\* variant: record.setdefault("_url", ...), which keeps a field already there
AddUrl_KeepExisting(model, record) ==
    IF "id" \in DOMAIN record
    THEN [f \in (DOMAIN record) \cup {"_url"} |->
            IF f \in DOMAIN record THEN record[f]
            ELSE build_record_url(model, record["id"])]
    ELSE record

\* record["_url"] = build_record_url(model, record["id"]) for records with an id
AddUrl(model, record) ==
    IF "id" \in DOMAIN record
    THEN [f \in (DOMAIN record) \cup {"_url"} |->
            IF f = "_url" THEN build_record_url(model, record["id"]) ELSE record[f]]
    ELSE record

AddUrls(model, records) == [k \in DOMAIN records |-> AddUrl(model, records[k])]

\* variant: the total taken from the page that was read
search_response_PageTotal(records, total, limit, offset) ==
    [records |-> records, total |-> Len(records), limit |-> limit, offset |-> offset]

\* search_records: result = {"records", "total", "limit", "offset"}
search_response(records, total, limit, offset) ==
    [records |-> records, total |-> total, limit |-> limit, offset |-> offset]

\* [build_record_url(model, id) for id in ids]
Urls(model, ids) == [k \in DOMAIN ids |-> build_record_url(model, ids[k])]

\* {"name": field_name} updated with field_info
FieldDict(d) ==
    [k \in {"name"} \cup DOMAIN d.info |->
        IF k \in DOMAIN d.info THEN d.info[k] ELSE d.name]

\* position of a field name in Python's string order
NameRank(n) ==
    CASE n = "_url"  -> 1
      [] n = "body"  -> 2
      [] n = "data"  -> 3
      [] n = "id"    -> 4
      [] n = "image" -> 5
      [] n = "name"  -> 6

RECURSIVE SortByName(_)
\* result.sort(key=lambda x: x["name"])
SortByName(S) ==
    IF S = {} THEN <<>>
    ELSE LET m == CHOOSE x \in S : \A y \in S : NameRank(x["name"]) <= NameRank(y["name"])
         IN  <<m>> \o SortByName(S \ {m})

\* field_filter.lower() in field_name.lower(), for the names of the schemas
LowerIn(field_filter, field_name) ==
    CASE field_filter = "NA" -> field_name \in {"name"}
      [] field_filter = "D"  -> field_name \in {"id", "data", "body"}
      [] OTHER               -> FALSE

(***************************************************************************)
(* Requests                                                                *)
(***************************************************************************)
Operations ==
    {"list_models_resource", "get_model_fields", "get_record", "list_models",
     "get_fields", "execute_method", "search_records", "count_records",
     "read_records", "create_record", "update_record", "delete_record"}

NoRes == [none |-> TRUE]

Result(outcome, sent, response, raw, safe, args) ==
    [outcome |-> outcome, sent |-> sent, response |-> response,
     raw |-> raw, safe |-> safe, args |-> args]

\* the calls of `plan` that are sent when call number flt faults (0: none does)
Sent(plan, flt) == IF flt = 0 THEN plan ELSE SubSeq(plan, 1, flt)

Outcome(flt) == IF flt = 0 THEN "ok" ELSE "RpcFault"

Finish(p, r) ==
    /\ pc' = [pc EXCEPT ![p] = "done"]
    /\ res' = [res EXCEPT ![p] = r]

InitWith(S) ==
    /\ READONLY_MODE \in BOOLEAN
    /\ _client = None
    /\ connects = 0
    /\ schema \in S
    /\ existing = {}
    /\ nextId = 1
    /\ pc = [p \in Callers |-> "idle"]
    /\ op = [p \in Callers |-> "none"]
    /\ cl = [p \in Callers |-> None]
    /\ did = [p \in Callers |-> FALSE]
    /\ res = [p \in Callers |-> NoRes]
    /\ prevSafe = None

\* the framework receives a request for operation o
Invoke(p, o) ==
    /\ pc[p] \in {"idle", "done"}
    /\ pc' = [pc EXCEPT ![p] = "check"]
    /\ op' = [op EXCEPT ![p] = o]
    /\ cl' = [cl EXCEPT ![p] = None]
    /\ did' = [did EXCEPT ![p] = FALSE]
    /\ res' = [res EXCEPT ![p] = NoRes]
    /\ UNCHANGED <<READONLY_MODE, _client, connects, schema, existing, nextId, prevSafe>>

\* get_shared_client: `if _client is None:`
get_shared_client_check(p) ==
    /\ pc[p] = "check"
    /\ pc' = [pc EXCEPT ![p] = IF _client = None THEN "connect" ELSE "return"]
    /\ UNCHANGED <<READONLY_MODE, _client, connects, schema, existing, nextId,
                   op, cl, did, res, prevSafe>>

\* variant: a client object assigned before the connection is attempted, so
\* that a failed attempt leaves it in _client
get_shared_client_connect_StoreFirst(p, ok) ==
    /\ pc[p] = "connect"
    /\ IF ok
       THEN /\ connects' = connects + 1
            /\ _client' = [handle |-> connects + 1]
            /\ did' = [did EXCEPT ![p] = TRUE]
            /\ pc' = [pc EXCEPT ![p] = "return"]
            /\ UNCHANGED res
       ELSE /\ Finish(p, Result("ConnectivityError", <<>>, None, None, None, None))
            /\ _client' = [handle |-> 0]
            /\ UNCHANGED <<connects, did>>
    /\ UNCHANGED <<READONLY_MODE, schema, existing, nextId, op, cl, prevSafe>>

\* get_shared_client: `_client = OdooJsonRpcClient.connect(...)`; connect raises
\* when the address does not parse or the library refuses the connection
get_shared_client_connect(p, ok) ==
    /\ pc[p] = "connect"
    /\ IF ok
       THEN /\ connects' = connects + 1
            /\ _client' = [handle |-> connects + 1]
            /\ did' = [did EXCEPT ![p] = TRUE]
            /\ pc' = [pc EXCEPT ![p] = "return"]
            /\ UNCHANGED res
       ELSE /\ Finish(p, Result("ConnectivityError", <<>>, None, None, None, None))
            /\ UNCHANGED <<_client, connects, did>>
    /\ UNCHANGED <<READONLY_MODE, schema, existing, nextId, op, cl, prevSafe>>

\* get_shared_client: `return _client`
get_shared_client_return(p) ==
    /\ pc[p] = "return"
    /\ cl' = [cl EXCEPT ![p] = _client]
    /\ pc' = [pc EXCEPT ![p] = "body"]
    /\ UNCHANGED <<READONLY_MODE, _client, connects, schema, existing, nextId,
                   op, did, res, prevSafe>>

Body(p, o) == pc[p] = "body" /\ op[p] = o

Frame == UNCHANGED <<READONLY_MODE, _client, connects, schema, op, cl, did>>

(***************************************************************************)
(* Resources                                                               *)
(***************************************************************************)
\* what the remote answers to a search_read on ir.model
IrModelRows ==
    << [id |-> 1, model |-> "res.partner", name |-> "Contact"],
       [id |-> 2, model |-> "x.doc", name |-> "Document"] >>

\* odoo://models ; hit: whether the remote finds rows
list_models_resource(p, hit, flt) ==
    /\ Body(p, "list_models_resource")
    /\ flt \in 0..1
    /\ LET plan == <<client_search_read("ir.model", <<>>, Some(<<"model", "name">>),
                                        500, 0, None)>>
           records == IF hit THEN IrModelRows ELSE <<>>
       IN  Finish(p, Result(Outcome(flt), Sent(plan, flt),
                            IF flt = 0 THEN [rows |-> records] ELSE None,
                            None, None, [hit |-> hit]))
    /\ Frame
    /\ UNCHANGED <<existing, nextId, prevSafe>>

\* odoo://model/{model_name}
get_model_fields(p, model_name, flt) ==
    /\ Body(p, "get_model_fields")
    /\ flt \in 0..1
    /\ LET attrs == Some(DEFAULT_FIELD_ATTRIBUTES)
           plan == <<client_fields_get(model_name, None, attrs)>>
           fields_data == RemoteFieldsGet(plan[1].params.allfields,
                                          plan[1].params.attributes)
           result == SortByName({FieldDict(fields_data[i]) : i \in DOMAIN fields_data})
       IN  Finish(p, Result(Outcome(flt), Sent(plan, flt),
                            IF flt = 0 THEN [rows |-> result] ELSE None,
                            None, None, [model |-> model_name]))
    /\ Frame
    /\ UNCHANGED <<existing, nextId, prevSafe>>

\* odoo://record/{model_name}/{record_id}
get_record(p, model_name, record_id, flt) ==
    /\ Body(p, "get_record")
    /\ flt \in 0..2
    /\ LET fields == get_safe_fields(model_name)
           plan == <<SafeFieldsCall(model_name),
                     client_read(model_name, <<record_id>>, Some(fields))>>
           records == RemoteRead(plan[2].params.ids, plan[2].params.fields)
           response == IF Len(records) > 0 THEN records[1]
                       ELSE [error |-> "Record not found"]
       IN  /\ Finish(p, Result(Outcome(flt), Sent(plan, flt),
                               IF flt = 0 THEN response ELSE None,
                               IF flt = 0 THEN Some(records) ELSE None,
                               IF flt # 1 THEN Some(fields) ELSE None,
                               [model |-> model_name, id |-> record_id, fields |-> None]))
           /\ prevSafe' = IF flt # 1 THEN Some(fields) ELSE prevSafe
    /\ Frame
    /\ UNCHANGED <<existing, nextId>>

(***************************************************************************)
(* Read-path tools                                                         *)
(***************************************************************************)
list_models(p, name_filter, hit, flt) ==
    /\ Body(p, "list_models")
    /\ flt \in 0..1
    /\ LET domain == IF TruthyStr(name_filter)
                     THEN <<"|", <<"model", "ilike", name_filter.some>>,
                                 <<"name", "ilike", name_filter.some>>>>
                     ELSE <<>>
           plan == <<client_search_read("ir.model", domain, Some(<<"model", "name">>),
                                        500, 0, None)>>
           records == IF hit THEN IrModelRows ELSE <<>>
       IN  Finish(p, Result(Outcome(flt), Sent(plan, flt),
                            IF flt = 0 THEN [rows |-> records] ELSE None,
                            None, None, [name_filter |-> name_filter, hit |-> hit]))
    /\ Frame
    /\ UNCHANGED <<existing, nextId, prevSafe>>

get_fields(p, model, field_filter, fields, attributes, flt) ==
    /\ Body(p, "get_fields")
    /\ flt \in 0..1
    /\ LET attrs == IF Truthy(attributes) THEN attributes
                    ELSE Some(DEFAULT_FIELD_ATTRIBUTES)
           plan == <<client_fields_get(model, fields, attrs)>>
           fields_data == RemoteFieldsGet(plan[1].params.allfields,
                                          plan[1].params.attributes)
           kept == {i \in DOMAIN fields_data :
                       ~(TruthyStr(field_filter)
                         /\ ~LowerIn(field_filter.some, fields_data[i].name))}
           result == SortByName({FieldDict(fields_data[i]) : i \in kept})
       IN  Finish(p, Result(Outcome(flt), Sent(plan, flt),
                            IF flt = 0 THEN [rows |-> result] ELSE None,
                            None, None,
                            [model |-> model, field_filter |-> field_filter,
                             fields |-> fields, attributes |-> attributes]))
    /\ Frame
    /\ UNCHANGED <<existing, nextId, prevSafe>>

search_records(p, model, domain, fields, limit, offset, order, flt) ==
    /\ Body(p, "search_records")
    /\ LET dom == OrEmpty(domain)
           auto == fields = None
           safe == get_safe_fields(model)
           flds == IF auto THEN Some(safe) ELSE fields
           readAt == IF auto THEN 2 ELSE 1
           plan == (IF auto THEN <<SafeFieldsCall(model)>> ELSE <<>>)
                   \o <<client_search_read(model, dom, flds, limit, offset, order),
                        client_search_count(model, dom)>>
           q == plan[readAt].params
           raw == RemoteSearchRead(q.domain, q.fields, q.limit, q.offset, q.order)
           total == RemoteSearchCount(plan[readAt + 1].params.domain)
           response == search_response(AddUrls(model, raw), total, limit, offset)
           gotSafe == auto /\ flt # 1
       IN  /\ flt \in 0..Len(plan)
           /\ ~FieldsKnown(q.fields) => flt \in 1..readAt
           /\ Finish(p, Result(Outcome(flt), Sent(plan, flt),
                               IF flt = 0 THEN response ELSE None,
                               IF flt = 0 THEN Some(raw) ELSE None,
                               IF gotSafe THEN Some(safe) ELSE None,
                               [model |-> model, domain |-> domain, fields |-> fields,
                                limit |-> limit, offset |-> offset, order |-> order]))
           /\ prevSafe' = IF gotSafe THEN Some(safe) ELSE prevSafe
    /\ Frame
    /\ UNCHANGED <<existing, nextId>>

count_records(p, model, domain, flt) ==
    /\ Body(p, "count_records")
    /\ flt \in 0..1
    /\ LET plan == <<client_search_count(model, OrEmpty(domain))>>
           count == RemoteSearchCount(plan[1].params.domain)
       IN  Finish(p, Result(Outcome(flt), Sent(plan, flt),
                            IF flt = 0 THEN [model |-> model, count |-> count] ELSE None,
                            None, None, [model |-> model, domain |-> domain]))
    /\ Frame
    /\ UNCHANGED <<existing, nextId, prevSafe>>

read_records(p, model, ids, fields, flt) ==
    /\ Body(p, "read_records")
    /\ LET auto == fields = None
           safe == get_safe_fields(model)
           flds == IF auto THEN Some(safe) ELSE fields
           readAt == IF auto THEN 2 ELSE 1
           plan == (IF auto THEN <<SafeFieldsCall(model)>> ELSE <<>>)
                   \o <<client_read(model, ids, flds)>>
           q == plan[readAt].params
           raw == RemoteRead(q.ids, q.fields)
           gotSafe == auto /\ flt # 1
       IN  /\ flt \in 0..Len(plan)
           /\ ~FieldsKnown(q.fields) => flt \in 1..readAt
           /\ Finish(p, Result(Outcome(flt), Sent(plan, flt),
                               IF flt = 0 THEN [records |-> AddUrls(model, raw)] ELSE None,
                               IF flt = 0 THEN Some(raw) ELSE None,
                               IF gotSafe THEN Some(safe) ELSE None,
                               [model |-> model, ids |-> ids, fields |-> fields]))
           /\ prevSafe' = IF gotSafe THEN Some(safe) ELSE prevSafe
    /\ Frame
    /\ UNCHANGED <<existing, nextId>>

(***************************************************************************)
(* Mutating tools                                                          *)
(***************************************************************************)
\* values is a dict ([dict |-> m]) or a list of dicts ([list |-> <<m1, ...>>])
IsList(v) == "list" \in DOMAIN v

Count(values) == IF IsList(values) THEN Len(values.list) ELSE 1

\* the ids the remote gives to n new records
NewIds(n) == [k \in 1..n |-> nextId + k - 1]

\* model.create(values): an id for a dict, the ids for a list; `bare`: the
\* remote answers a list of one dict with the id alone
RemoteCreate(values, bare) ==
    IF IsList(values) /\ ~bare THEN [list |-> NewIds(Count(values))]
    ELSE [int |-> nextId]

\* variant: the response form decided by the form of the remote answer
create_response_ByResult(model, values, result) ==
    IF IsList(result)
    THEN [ids |-> result.list, count |-> Len(result.list), success |-> TRUE,
          urls |-> Urls(model, result.list)]
    ELSE [id |-> result.int, success |-> TRUE,
          url |-> build_record_url(model, result.int)]

\* create_record, after the remote call: the response for result
create_response(model, values, result) ==
    IF IsList(values)
    THEN LET ids == IF IsList(result) THEN result.list ELSE <<result.int>>
         IN  [ids |-> ids, count |-> Len(ids), success |-> TRUE,
              urls |-> Urls(model, ids)]
    ELSE [id |-> result.int, success |-> TRUE,
          url |-> build_record_url(model, result.int)]

\* variant: the guard checked after client.create has been called
create_record_GuardLate(p, model, values, bare, flt) ==
    /\ Body(p, "create_record")
    /\ flt \in 0..1
    /\ bare => IsList(values) /\ Count(values) = 1
    /\ flt = 0 => nextId + Count(values) - 1 <= MaxId
    /\ LET blocked == check_readonly_mode("create")
           plan == <<client_create(model, values)>>
           result == RemoteCreate(values, bare)
           args == [model |-> model, values |-> values]
       IN  /\ Finish(p, IF flt = 0 /\ blocked
                        THEN Result("PolicyError", plan, None, None, None, args)
                        ELSE Result(Outcome(flt), Sent(plan, flt),
                                    IF flt = 0 THEN create_response(model, values, result)
                                    ELSE None,
                                    IF flt = 0 THEN Some(result) ELSE None, None, args))
           /\ existing' = IF flt = 0 THEN existing \cup Range(NewIds(Count(values)))
                          ELSE existing
           /\ nextId' = IF flt = 0 THEN nextId + Count(values) ELSE nextId
    /\ Frame
    /\ UNCHANGED prevSafe

create_record(p, model, values, bare, flt) ==
    /\ Body(p, "create_record")
    /\ flt \in 0..1
    /\ bare => IsList(values) /\ Count(values) = 1
    /\ LET blocked == check_readonly_mode("create")
           plan == <<client_create(model, values)>>
           result == RemoteCreate(values, bare)
           done == ~blocked /\ flt = 0
           args == [model |-> model, values |-> values]
       IN  /\ done => nextId + Count(values) - 1 <= MaxId
           /\ Finish(p, IF blocked
                        THEN Result("PolicyError", <<>>, None, None, None, args)
                        ELSE Result(Outcome(flt), Sent(plan, flt),
                                    IF flt = 0 THEN create_response(model, values, result)
                                    ELSE None,
                                    IF flt = 0 THEN Some(result) ELSE None, None, args))
           /\ existing' = IF done THEN existing \cup Range(NewIds(Count(values)))
                          ELSE existing
           /\ nextId' = IF done THEN nextId + Count(values) ELSE nextId
    /\ Frame
    /\ UNCHANGED prevSafe

\* variant: the success envelope whatever the remote answered
update_response_IgnoreResult(model, ids, result) ==
    [success |-> TRUE, updated_ids |-> ids, urls |-> Urls(model, ids)]

\* update_record, after the remote call: the envelope for result
update_response(model, ids, result) ==
    IF result
    THEN [success |-> TRUE, updated_ids |-> ids, urls |-> Urls(model, ids)]
    ELSE [success |-> FALSE, updated_ids |-> ids, error |-> "Update operation failed"]

\* result: what the remote write answers
update_record(p, model, ids, values, result, flt) ==
    /\ Body(p, "update_record")
    /\ flt \in 0..1
    /\ LET blocked == check_readonly_mode("write")
           plan == <<client_write(model, ids, values)>>
           response == update_response(model, ids, result)
           args == [model |-> model, ids |-> ids, values |-> values]
       IN  Finish(p, IF blocked
                     THEN Result("PolicyError", <<>>, None, None, None, args)
                     ELSE Result(Outcome(flt), Sent(plan, flt),
                                 IF flt = 0 THEN response ELSE None,
                                 IF flt = 0 THEN Some(result) ELSE None, None, args))
    /\ Frame
    /\ UNCHANGED <<existing, nextId, prevSafe>>

\* result: what the remote unlink answers; a true answer removed the records
delete_record(p, model, ids, result, flt) ==
    /\ Body(p, "delete_record")
    /\ flt \in 0..1
    /\ LET blocked == check_readonly_mode("unlink")
           plan == <<client_unlink(model, ids)>>
           done == ~blocked /\ flt = 0
           args == [model |-> model, ids |-> ids]
       IN  /\ Finish(p, IF blocked
                        THEN Result("PolicyError", <<>>, None, None, None, args)
                        ELSE Result(Outcome(flt), Sent(plan, flt),
                                    IF flt = 0
                                    THEN [success |-> result, deleted_ids |-> ids]
                                    ELSE None,
                                    IF flt = 0 THEN Some(result) ELSE None, None, args))
           /\ existing' = IF done /\ result THEN existing \ Range(ids) ELSE existing
    /\ Frame
    /\ UNCHANGED <<nextId, prevSafe>>

\* `kwargs or {}`
OrEmptyDict(x) == IF x = None THEN [k \in {} |-> k] ELSE x.some

\* the remote's answer to a generic method is opaque; its effect on the
\* records is not part of the model
execute_method(p, model, method, args, kwargs, flt) ==
    /\ Body(p, "execute_method")
    /\ flt \in 0..1
    /\ LET blocked == check_readonly_mode(method)
           plan == <<client_execute(model, method, OrEmpty(args), OrEmptyDict(kwargs))>>
           a == [model |-> model, method |-> method, args |-> args, kwargs |-> kwargs]
       IN  Finish(p, IF blocked
                     THEN Result("PolicyError", <<>>, None, None, None, a)
                     ELSE Result(Outcome(flt), Sent(plan, flt),
                                 IF flt = 0 THEN [result |-> <<"result", method>>]
                                 ELSE None,
                                 None, None, a))
    /\ Frame
    /\ UNCHANGED <<existing, nextId, prevSafe>>

(***************************************************************************)
(* Inputs                                                                  *)
(***************************************************************************)
Models == {"res.partner", "x.doc"}

FieldLists ==
    {None, Some(<<>>), Some(<<"name">>), Some(<<"_url">>), Some(<<"data">>)}

IdLists == {<<1>>, <<2, 1>>}

Domains == {None, Some(<<>>), Some(<< <<"id", "=", 1>> >>)}

Limits == {1, 100}

Offsets == {0, 1}

Orders == {None, Some("id desc")}

Mapping == [name |-> "a"]

ValuesIn ==
    { [dict |-> Mapping], [list |-> <<>>], [list |-> <<Mapping>>],
      [list |-> <<Mapping, Mapping>>] }

Methods == {"create", "write", "unlink", "copy", "read", "copy_data"}

ArgLists == {None, Some(<<>>), Some(<<1>>)}

KwargDicts == {None, Some([context |-> "c"])}

NameFilters == {None, Some(""), Some("sale")}

FieldFilters == {None, Some(""), Some("NA"), Some("D")}

AttributeLists == {None, Some(<<>>), Some(<<"type">>)}

\* the inputs of the concurrent specification: one of each kind; the batch
\* created is the empty list, so the records of the store stay as they are
Core ==
    [models |-> {"res.partner"}, fields |-> {None}, ids |-> {<<1>>},
     domains |-> {None}, limits |-> {100}, offsets |-> {0}, orders |-> {None},
     values |-> {[list |-> <<>>]}, methods |-> {"create", "read"},
     args |-> {None}, kwargs |-> {None}, filters |-> {None},
     ffilters |-> {None}, attrs |-> {None},
     recids |-> {1}, answers |-> {TRUE}, faults |-> 0..1]

Full ==
    [models |-> Models, fields |-> FieldLists, ids |-> IdLists,
     domains |-> Domains, limits |-> Limits, offsets |-> Offsets, orders |-> Orders,
     values |-> ValuesIn, methods |-> Methods,
     args |-> ArgLists, kwargs |-> KwargDicts, filters |-> NameFilters,
     ffilters |-> FieldFilters, attrs |-> AttributeLists,
     recids |-> 1..MaxId, answers |-> BOOLEAN, faults |-> 0..3]

(***************************************************************************)
(* Specifications                                                          *)
(***************************************************************************)
Step(P, I) ==
    \/ \E p \in P, o \in Operations : Invoke(p, o)
    \/ \E p \in P : get_shared_client_check(p)
    \/ \E p \in P, ok \in BOOLEAN : get_shared_client_connect(p, ok)
    \/ \E p \in P : get_shared_client_return(p)
    \/ \E p \in P : Body(p, "list_models_resource") /\
          \E hit \in I.answers, flt \in I.faults : list_models_resource(p, hit, flt)
    \/ \E p \in P : Body(p, "get_model_fields") /\
          \E m \in I.models, flt \in I.faults : get_model_fields(p, m, flt)
    \/ \E p \in P : Body(p, "get_record") /\
          \E m \in I.models, id \in I.recids, flt \in I.faults : get_record(p, m, id, flt)
    \/ \E p \in P : Body(p, "list_models") /\
          \E nf \in I.filters, hit \in I.answers, flt \in I.faults :
             list_models(p, nf, hit, flt)
    \/ \E p \in P : Body(p, "get_fields") /\
          \E m \in I.models, ff \in I.ffilters, f \in I.fields \cap {None, Some(<<"name">>)},
             a \in I.attrs, flt \in I.faults : get_fields(p, m, ff, f, a, flt)
    \/ \E p \in P : Body(p, "execute_method") /\
          \E m \in I.models, md \in I.methods, a \in I.args, k \in I.kwargs,
             flt \in I.faults : execute_method(p, m, md, a, k, flt)
    \/ \E p \in P : Body(p, "search_records") /\
          \E m \in I.models, d \in I.domains, f \in I.fields, l \in I.limits,
             o \in I.offsets, ord \in I.orders, flt \in I.faults :
             search_records(p, m, d, f, l, o, ord, flt)
    \/ \E p \in P : Body(p, "count_records") /\
          \E m \in I.models, d \in I.domains, flt \in I.faults :
             count_records(p, m, d, flt)
    \/ \E p \in P : Body(p, "read_records") /\
          \E m \in I.models, ids \in I.ids, f \in I.fields, flt \in I.faults :
             read_records(p, m, ids, f, flt)
    \/ \E p \in P : Body(p, "create_record") /\
          \E m \in I.models, v \in I.values, bare \in BOOLEAN, flt \in I.faults :
             create_record(p, m, v, bare, flt)
    \/ \E p \in P : Body(p, "update_record") /\
          \E m \in I.models, ids \in I.ids, r \in I.answers, flt \in I.faults :
             update_record(p, m, ids, Mapping, r, flt)
    \/ \E p \in P : Body(p, "delete_record") /\
          \E m \in I.models, ids \in I.ids, r \in I.answers, flt \in I.faults :
             delete_record(p, m, ids, r, flt)

\* concurrent callers, one input of each kind
Next == Step(Callers, Core)

Init == InitWith(CoreSchemas)

Spec == Init /\ [][Next]_vars

\* one caller, one request at a time, every input and every schema
NextOps == Step({"c1"}, Full)

InitOps == InitWith(Schemas)

SpecOps == InitOps /\ [][NextOps]_vars

(***************************************************************************)
(* Properties                                                              *)
(***************************************************************************)
\* caller p's request has finished
Done(p) == pc[p] = "done"

\* caller p's request ran its function body (its dependency resolved)
Ran(p) == Done(p) /\ cl[p] # None

\* the mutating call each mutating tool sends
ProxyMethod(o) ==
    CASE o = "create_record" -> "create"
      [] o = "update_record" -> "write"
      [] o = "delete_record" -> "unlink"

\* C1: with READONLY_MODE enabled every call of create_record, update_record
\* and delete_record ends in the policy error and sends nothing to the remote
\* model proxy; with it disabled every such call sends its create, write or
\* unlink to the proxy.
C1_GuardBlocksWrites ==
    \A p \in Callers :
        (Ran(p) /\ op[p] \in {"create_record", "update_record", "delete_record"}) =>
            IF READONLY_MODE
            THEN res[p].outcome = "PolicyError" /\ res[p].sent = <<>>
            ELSE /\ res[p].outcome # "PolicyError"
                 /\ Len(res[p].sent) = 1
                 /\ res[p].sent[1].method = ProxyMethod(op[p])
                 /\ res[p].sent[1].model = res[p].args.model

C1_Witness ==
    \E p \in Callers :
        /\ Ran(p) /\ op[p] = "delete_record" /\ READONLY_MODE
        /\ res[p].outcome = "PolicyError"
        /\ res[p].args.ids = <<2, 1>>

Blocked(p) == Done(p) /\ res[p].outcome = "PolicyError"

\* C3 (as claimed): during a blocked mutating call the remote store is never
\* contacted: no remote method call is sent and the shared client is not
\* established on behalf of the call.
C3_BlockedNeverContacts ==
    \A p \in Callers : Blocked(p) => res[p].sent = <<>> /\ ~did[p]

\* C3 (amended): during a blocked call no remote method call is sent; the
\* shared client may be established on behalf of the call, because the
\* dependency get_shared_client is resolved before the guard runs.
C3_BlockedSendsNothing ==
    \A p \in Callers : Blocked(p) => res[p].sent = <<>>

C3_Witness ==
    \E p \in Callers :
        Blocked(p) /\ op[p] = "create_record" /\ did[p] /\ res[p].sent = <<>>

\* C4: the shared client is created at most once and every caller receives
\* that same client.
C4_CreatedAtMostOnce ==
    /\ connects <= 1
    /\ \A p, q \in Callers : (cl[p] # None /\ cl[q] # None) => cl[p] = cl[q]

\* C5: once the shared client is established it is never replaced and connect
\* is not called again.
C5_HandleNeverReplaced ==
    [][_client # None => (_client' = _client /\ connects' = connects)]_vars

\* the URL <ODOO_URL>/odoo/<model>/<id>
RecordUrl(model, id) == <<"http://localhost:8019", "/odoo/", model, "/", id>>

\* C6: create_record answers in the form of its input: for a single mapping
\* a singular id and url; for a sequence of n mappings ids, count = n and
\* urls, one url per id in order, whatever form the remote answer has.
C6_CreateShape ==
    \A p \in Callers :
        (Ran(p) /\ op[p] = "create_record" /\ res[p].outcome = "ok") =>
            LET v == res[p].args.values
                m == res[p].args.model
                r == res[p].response
            IN  IF "dict" \in DOMAIN v
                THEN /\ DOMAIN r = {"id", "success", "url"}
                     /\ r.id = res[p].raw.some.int
                     /\ r.url = RecordUrl(m, r.id)
                ELSE /\ DOMAIN r = {"ids", "count", "success", "urls"}
                     /\ Len(r.ids) = Len(v.list)
                     /\ r.count = Len(v.list)
                     /\ Len(r.urls) = Len(v.list)
                     /\ \A i \in DOMAIN r.ids : r.urls[i] = RecordUrl(m, r.ids[i])

\* a sequence of one mapping that the remote answers with a bare id
C6_Witness ==
    \E p \in Callers :
        /\ Ran(p) /\ op[p] = "create_record" /\ res[p].outcome = "ok"
        /\ res[p].args.values = [list |-> <<Mapping>>]
        /\ "int" \in DOMAIN res[p].raw.some
        /\ res[p].response.count = 1

\* C7: update_record whose remote write answers false returns the envelope
\* success = false, updated_ids = ids, error = "Update operation failed"
\* and no urls; it raises only when the guard blocks it or the remote call
\* faults.
C7_SoftFailure ==
    \A p \in Callers :
        (Ran(p) /\ op[p] = "update_record") =>
            /\ res[p].raw = Some(FALSE) =>
                  /\ res[p].outcome = "ok"
                  /\ res[p].response =
                        [success |-> FALSE, updated_ids |-> res[p].args.ids,
                         error |-> "Update operation failed"]
            /\ res[p].outcome # "ok" =>
                  \/ res[p].outcome = "PolicyError" /\ READONLY_MODE
                  \/ res[p].outcome = "RpcFault" /\ res[p].raw = None
                        /\ Len(res[p].sent) = 1

C7_Witness ==
    \E p \in Callers :
        /\ Ran(p) /\ op[p] = "update_record"
        /\ res[p].raw = Some(FALSE)
        /\ res[p].response.success = FALSE

\* the read request of a finished read-path request: its last call
ReadCall(p) == res[p].sent[IF op[p] = "search_records" THEN Len(res[p].sent) - 1
                           ELSE Len(res[p].sent)]

\* the declared fields whose type is not binary, image or html
SafeSet ==
    {schema[i].name : i \in {j \in DOMAIN schema :
        ~("type" \in DOMAIN schema[j].info
          /\ schema[j].info.type \in {"binary", "image", "html"})}}

DangerousSet == Declared \ SafeSet

\* the same field list in a request: the client sends an empty list as no list
SameFields(f, g) == f = g \/ (~Truthy(f) /\ ~Truthy(g))

\* C8: a read-path operation invoked without a field list sends a read
\* request restricted to the safe fields and gets no binary, image or html
\* field back; a field list given by the caller is sent as given.
C8_DefaultReadsAreSafe ==
    \A p \in Callers :
        (Ran(p) /\ op[p] \in {"search_records", "read_records", "get_record"}
                /\ res[p].outcome = "ok") =>
            LET q == ReadCall(p).params
                records == res[p].raw.some
            IN  IF res[p].args.fields = None
                THEN /\ q.fields # None
                     /\ Range(q.fields.some) = SafeSet
                     /\ \A k \in DOMAIN records :
                           (DOMAIN records[k]) \cap DangerousSet = {}
                ELSE SameFields(q.fields, res[p].args.fields)

\* C9: get_safe_fields returns exactly the declared fields whose type is not
\* binary, image or html, each once, and with the schema unchanged every
\* call returns what the call before it returned.
C9_SafeFieldsExact ==
    /\ [](\A p \in Callers :
            (Done(p) /\ res[p].safe # None) =>
                /\ Range(res[p].safe.some) = SafeSet
                /\ Len(res[p].safe.some) = Cardinality(SafeSet))
    /\ [][prevSafe # None => prevSafe' = prevSafe]_vars

\* a schema with an html field, which is left out
C9_Witness ==
    \E p \in Callers :
        /\ Done(p) /\ op[p] = "get_record"
        /\ res[p].safe = Some(<<"id", "_url">>)
        /\ "body" \in Declared

\* C10 (as claimed): in search_records and read_records every record with an
\* id has the URL under _url and keeps every field it came with, a field
\* named _url included; records without an id are unchanged.
C10_UrlWithoutOverwrite ==
    \A p \in Callers :
        (Ran(p) /\ op[p] \in {"search_records", "read_records"}
                /\ res[p].outcome = "ok") =>
            LET raw == res[p].raw.some
                out == res[p].response.records
            IN  /\ Len(out) = Len(raw)
                /\ \A k \in DOMAIN raw :
                      IF "id" \in DOMAIN raw[k]
                      THEN /\ out[k]["_url"] = RecordUrl(res[p].args.model, raw[k]["id"])
                           /\ \A f \in DOMAIN raw[k] : out[k][f] = raw[k][f]
                      ELSE out[k] = raw[k]

\* C10 (amended): every record with an id has the URL under _url, replacing
\* a field of that name the record came with; its other fields are as they
\* came; records without an id are unchanged.
C10_UrlReplaces ==
    \A p \in Callers :
        (Ran(p) /\ op[p] \in {"search_records", "read_records"}
                /\ res[p].outcome = "ok") =>
            LET raw == res[p].raw.some
                out == res[p].response.records
            IN  /\ Len(out) = Len(raw)
                /\ \A k \in DOMAIN raw :
                      IF "id" \in DOMAIN raw[k]
                      THEN /\ DOMAIN out[k] = (DOMAIN raw[k]) \cup {"_url"}
                           /\ out[k]["_url"] = RecordUrl(res[p].args.model, raw[k]["id"])
                           /\ \A f \in (DOMAIN raw[k]) \ {"_url"} : out[k][f] = raw[k][f]
                      ELSE out[k] = raw[k]

\* a record that came with a field named _url
C10_Witness ==
    \E p \in Callers :
        /\ Ran(p) /\ op[p] = "read_records" /\ res[p].outcome = "ok"
        /\ res[p].args.fields = Some(<<"_url">>)
        /\ Len(res[p].raw.some) > 0
        /\ "_url" \in DOMAIN res[p].raw.some[1]
        /\ res[p].response.records[1]["_url"] # res[p].raw.some[1]["_url"]

\* the domain a caller's argument stands for: none given is the empty domain
CallerDomain(domain) == IF domain = None THEN <<>> ELSE domain.some

\* the number of stored records that satisfy every condition of the domain
MatchCount(domain) ==
    Cardinality({i \in existing : \A k \in DOMAIN domain : domain[k][3] = i})

\* the count request for the caller's domain: the domain and nothing else
CountCall(p) ==
    [method |-> "search_count", model |-> res[p].args.model,
     params |-> [domain |-> CallerDomain(res[p].args.domain)]]

\* C11: search_records with limit N and offset K answers at most N records,
\* read with that limit and offset, and its total is the number of all
\* records matching the domain, asked for without limit or offset; total
\* therefore does not depend on N and K and is the count that count_records
\* reports for the same domain on the same records.
C11_TotalIsFullCount ==
    \A p \in Callers :
        /\ (Ran(p) /\ op[p] = "search_records" /\ res[p].outcome = "ok") =>
              LET a == res[p].args
                  r == res[p].response
                  n == Len(res[p].sent)
              IN  /\ Len(r.records) <= a.limit
                  /\ Len(r.records) = Len(res[p].raw.some)
                  /\ res[p].sent[n - 1].method = "search_read"
                  /\ res[p].sent[n - 1].params.limit = a.limit
                  /\ res[p].sent[n - 1].params.offset = a.offset
                  /\ res[p].sent[n] = CountCall(p)
                  /\ r.total = MatchCount(CallerDomain(a.domain))
        /\ (Ran(p) /\ op[p] = "count_records" /\ res[p].outcome = "ok") =>
              /\ res[p].sent = <<CountCall(p)>>
              /\ res[p].response.count = MatchCount(CallerDomain(res[p].args.domain))

\* a page of one record, read past the first, out of two matching records
C11_Witness ==
    \E p \in Callers :
        /\ Ran(p) /\ op[p] = "search_records" /\ res[p].outcome = "ok"
        /\ res[p].args.limit = 1 /\ res[p].args.offset = 1
        /\ Len(res[p].response.records) = 1
        /\ res[p].response.total = 2

\* caller p's request ended in the failure of its connection attempt
ConnectFailed(p) == Done(p) /\ res[p].outcome = "ConnectivityError"

\* C12: when OdooJsonRpcClient.connect fails, the request that called it ends
\* in that failure, having received no client and sent nothing; the failing
\* step leaves _client and the number of clients built as they were; and the
\* request makes no second attempt: it leaves the connecting position only
\* with a client or with the failure.
C12_FailedConnectStoresNothing ==
    /\ [](\A p \in Callers :
            ConnectFailed(p) =>
                cl[p] = None /\ ~did[p] /\ res[p].sent = <<>> /\ res[p].response = None)
    /\ [][\A p \in Callers :
            (pc[p] = "connect" /\ pc'[p] # "connect") =>
                \/ /\ pc'[p] = "return"
                   /\ _client' # None /\ did'[p] /\ connects' = connects + 1
                \/ /\ ConnectFailed(p)'
                   /\ _client' = _client /\ connects' = connects]_vars

\* a failed attempt beside another caller's successful one, whose client stays
C12_Witness ==
    \E p, q \in Callers :
        /\ ConnectFailed(p) /\ cl[p] = None
        /\ q # p /\ cl[q] # None /\ _client = cl[q]

====
